---- MODULE Spec2Model ----
(***************************************************************************)
(* Model of core-loader (src/src/lib.rs): the start-up path resolution     *)
(* (Core::init_data_directory, find_data_directory), the logging set-up    *)
(* (Core::init_logging), the library loader (Core::load_core), the symbol  *)
(* resolver (Core::new) and what a caller can do with the resulting Core   *)
(* (its three public entry-point fields) and the raw handles core_create   *)
(* returns.                                                                *)
(***************************************************************************)
EXTENDS Naturals, Sequences, FiniteSets

\* ------------------------------------------------------------------ bounds
\* Deepest directory the executable may live in (0 = the filesystem root).
MaxDepth == 4

\* ------------------------------------------------------------- filesystem
\* Directory names along the one chain of directories that matters: the
\* executable's directory and its ancestors.
Names == <<"d1", "d2", "d3", "d4", "d5", "d6">>

\* The directory at depth k of the chain; the root is the empty path.
Chain(k) == SubSeq(Names, 1, k)

Root == Chain(0)

Dirs == {Chain(k) : k \in 0..MaxDepth}

\* The directory the process was launched from (any directory; it is
\* overwritten before it is read).
LaunchDir == <<"home">>

\* Value of the local `path` of find_data_directory before line 39 assigns it.
NoPath == <<"unassigned">>

VARIABLES
    exeDir,      \* directory holding the running executable
    exeKnown,    \* whether std::env::current_exe() succeeds
    dataDirs,    \* the directories that have an entry named "data"
    cwd,         \* the process-wide working directory
    chdirs,      \* number of std::env::set_current_dir calls made so far
    path,        \* find_data_directory's local `path`
    pc,          \* position inside init_data_directory / find_data_directory
    fddResult,   \* what find_data_directory returned: "none", "Ok", "Err"
    iddResult    \* what init_data_directory returned: "none", "Ok", "Err"

pathVars == <<exeDir, exeKnown, dataDirs, cwd, chdirs, path, pc, fddResult, iddResult>>

VARIABLES
    fileExists,  \* whether CoreFilename names a file
    exports,     \* the entry points the module at CoreFilename exports
    logger,      \* log::logger(): "NopLogger" until a logger is installed
    maxLevel,    \* log::max_level(): "Off" until a logger is installed
    lib,         \* the Library value: "none", "loaded", "unloaded" (dropped)
    loadResult,  \* what the last load_core returned: "none", "Ok", "Err"
    loadTried,   \* the paths the last load_core handed to Library::new
    newPc,       \* position inside Core::new ("idle": not running)
    ret,         \* Core::new's local `ret`: "unset", "Ok", "Err"
    called,      \* module entry points invoked by the current Core::new run
    loggerArgs,  \* arguments of the core_setup_logger call of this run
    loggerRet,   \* what that call returned: "none", "Ok", "Err"
    resolved,    \* required symbols this Core::new run has resolved
    newResult,   \* how the last Core::new ended: "none", "Ok", "Err", "Panic"
    newErr,      \* the entry point named by the Err of Core::new
    core,        \* the Core value: "none" or "alive"
    hstate,      \* per handle: "unborn", "live" (created), "destroyed"
    lastCall     \* the last call made through one of Core's fields

coreVars == <<fileExists, exports, logger, maxLevel, lib, loadResult, loadTried,
              newPc, ret, called, loggerArgs, loggerRet, resolved, newResult,
              newErr, core, hstate, lastCall>>

vars == <<pathVars, coreVars>>

newVars == <<newPc, ret, called, loggerArgs, loggerRet, resolved, newResult, newErr, core>>

\* Path::parent(): None for the root, else the path without its last component.
HasParent(p) == Len(p) > 0

Parent(p) == SubSeq(p, 1, Len(p) - 1)

\* p.join("data").exists()
DataExists(p) == p \in dataDirs

\* std::env::current_exe(): the executable's own path.
CurrentExe == Append(exeDir, "exe")

\* std::env::set_current_dir(p): the one place the working directory changes.
SetCurrentDir(p) ==
    /\ cwd' = p
    /\ chdirs' = chdirs + 1

PathInit ==
    /\ exeDir \in Dirs
    /\ exeKnown \in BOOLEAN
    /\ dataDirs \in SUBSET Dirs
    /\ cwd = LaunchDir
    /\ chdirs = 0
    /\ path = NoPath
    /\ pc = "idd_start"
    /\ fddResult = "none"
    /\ iddResult = "none"

\* init_data_directory, lines 90-95: move to the executable's directory.
InitDataDirectoryEnter ==
    /\ pc = "idd_start"
    /\ IF exeKnown /\ HasParent(CurrentExe)
       THEN /\ SetCurrentDir(Parent(CurrentExe))
            /\ pc' = "fdd_start"
            /\ UNCHANGED iddResult
       ELSE /\ pc' = "done"
            /\ iddResult' = "Err"
            /\ UNCHANGED <<cwd, chdirs>>
    /\ UNCHANGED <<exeDir, exeKnown, dataDirs, path, fddResult>>
    /\ UNCHANGED coreVars

\* find_data_directory, lines 34-41: the current directory itself, then its
\* parent becomes `path`.
FindDataDirectoryStart ==
    /\ pc = "fdd_start"
    /\ IF DataExists(cwd)
       THEN /\ fddResult' = "Ok"
            /\ pc' = "idd_after_find"
            /\ UNCHANGED path
       ELSE IF HasParent(cwd)
            THEN /\ path' = Parent(cwd)
                 /\ pc' = "fdd_loop"
                 /\ UNCHANGED fddResult
            ELSE /\ fddResult' = "Err"
                 /\ pc' = "idd_after_find"
                 /\ UNCHANGED path
    /\ UNCHANGED <<exeDir, exeKnown, dataDirs, cwd, chdirs, iddResult>>
    /\ UNCHANGED coreVars

\* Mutant: the loop finds "data" and returns without set_current_dir.
FindDataDirectoryLoop_NoChdir ==
    /\ pc = "fdd_loop"
    /\ IF DataExists(path)
       THEN /\ fddResult' = "Ok"
            /\ pc' = "idd_after_find"
            /\ UNCHANGED <<cwd, chdirs, path>>
       ELSE IF HasParent(path)
            THEN /\ path' = Parent(path)
                 /\ UNCHANGED <<cwd, chdirs, fddResult, pc>>
            ELSE /\ fddResult' = "Err"
                 /\ pc' = "idd_after_find"
                 /\ UNCHANGED <<cwd, chdirs, path>>
    /\ UNCHANGED <<exeDir, exeKnown, dataDirs, iddResult>>
    /\ UNCHANGED coreVars

\* Mutant: the loop gives up one directory early, never looking in the root.
FindDataDirectoryLoop_SkipRoot ==
    /\ pc = "fdd_loop"
    /\ IF ~HasParent(path)
       THEN /\ fddResult' = "Err"
            /\ pc' = "idd_after_find"
            /\ UNCHANGED <<cwd, chdirs, path>>
       ELSE IF DataExists(path)
            THEN /\ SetCurrentDir(path)
                 /\ fddResult' = "Ok"
                 /\ pc' = "idd_after_find"
                 /\ UNCHANGED path
            ELSE /\ path' = Parent(path)
                 /\ UNCHANGED <<cwd, chdirs, fddResult, pc>>
    /\ UNCHANGED <<exeDir, exeKnown, dataDirs, iddResult>>
    /\ UNCHANGED coreVars

\* find_data_directory, lines 43-52: one iteration of the loop.
FindDataDirectoryLoop ==
    /\ pc = "fdd_loop"
    /\ IF DataExists(path)
       THEN /\ SetCurrentDir(path)
            /\ fddResult' = "Ok"
            /\ pc' = "idd_after_find"
            /\ UNCHANGED path
       ELSE IF HasParent(path)
            THEN /\ path' = Parent(path)
                 /\ UNCHANGED <<cwd, chdirs, fddResult, pc>>
            ELSE /\ fddResult' = "Err"
                 /\ pc' = "idd_after_find"
                 /\ UNCHANGED <<cwd, chdirs, path>>
    /\ UNCHANGED <<exeDir, exeKnown, dataDirs, iddResult>>
    /\ UNCHANGED coreVars

\* Mutant: Ok is returned without the second move to the executable's directory.
InitDataDirectoryReset_NoChdir ==
    /\ pc = "idd_after_find"
    /\ pc' = "done"
    /\ iddResult' = IF fddResult = "Ok" /\ HasParent(CurrentExe) THEN "Ok" ELSE "Err"
    /\ UNCHANGED <<cwd, chdirs>>
    /\ UNCHANGED <<exeDir, exeKnown, dataDirs, path, fddResult>>
    /\ UNCHANGED coreVars

\* init_data_directory, lines 97-108: the error of find_data_directory is
\* passed on; after its success the working directory is set to the
\* executable's directory once more.
InitDataDirectoryReset ==
    /\ pc = "idd_after_find"
    /\ pc' = "done"
    /\ IF fddResult = "Ok" /\ HasParent(CurrentExe)
       THEN /\ SetCurrentDir(Parent(CurrentExe))
            /\ iddResult' = "Ok"
       ELSE /\ iddResult' = "Err"
            /\ UNCHANGED <<cwd, chdirs>>
    /\ UNCHANGED <<exeDir, exeKnown, dataDirs, path, fddResult>>
    /\ UNCHANGED coreVars

PathNext ==
    \/ InitDataDirectoryEnter
    \/ FindDataDirectoryStart
    \/ FindDataDirectoryLoop
    \/ InitDataDirectoryReset

\* --------------------------------------------------------- module and host
\* Handles core_create can hand out during one run of the model.
MaxHandles == 2

Handles == 1..MaxHandles

\* load_core, line 112: the one path the module is loaded from.
CoreFilename == "../../../retrovert-core/target/debug/librv_core.so"

\* The byte strings handed to Library::get, lines 119, 125, 128, 131: the
\* name, and whether the literal ends in a NUL byte.
SetupLoggerSym == [name |-> "core_setup_logger", nul |-> FALSE]

CoreCreateSym == [name |-> "core_create", nul |-> TRUE]

CoreDestroySym == [name |-> "core_destroy", nul |-> TRUE]

CoreUpdateSym == [name |-> "core_update", nul |-> TRUE]

Required == {"core_create", "core_destroy", "core_update"}

Exportable == Required \cup {"core_setup_logger"}

NoCall == [fn |-> "none", handle |-> 0, flag |-> FALSE, stale |-> FALSE]

\* The host before load_core: nothing loaded, no logger installed.
CoreIdle ==
    /\ logger = "NopLogger"
    /\ maxLevel = "Off"
    /\ lib = "none"
    /\ loadResult = "none"
    /\ loadTried = <<>>
    /\ newPc = "idle"
    /\ ret = "unset"
    /\ called = <<>>
    /\ loggerArgs = <<>>
    /\ loggerRet = "none"
    /\ resolved = {}
    /\ newResult = "none"
    /\ newErr = "none"
    /\ core = "none"
    /\ hstate = [h \in Handles |-> "unborn"]
    /\ lastCall = NoCall

CoreInit ==
    /\ fileExists \in BOOLEAN
    /\ exports \in SUBSET Exportable
    /\ CoreIdle

\* init_logging, lines 56-87: CombinedLogger::init installs the process-wide
\* logger (terminal at Warn, file at Info) unless one is installed already
\* or the log file cannot be made; the threshold becomes the finer of the two.
InitLogging ==
    /\ newPc = "idle"
    /\ \E envOk \in BOOLEAN :
         IF envOk /\ logger = "NopLogger"
         THEN /\ logger' = "CombinedLogger"
              /\ maxLevel' = "Info"
         ELSE UNCHANGED <<logger, maxLevel>>
    /\ UNCHANGED <<fileExists, exports, lib, loadResult, loadTried, hstate, lastCall>>
    /\ UNCHANGED newVars
    /\ UNCHANGED pathVars

\* Mutant: a second path is tried when the first cannot be loaded.
LoadCore_Fallback ==
    /\ newPc = "idle"
    /\ lib # "loaded"
    /\ \E osOk \in BOOLEAN :
         IF fileExists /\ osOk
         THEN /\ loadTried' = <<CoreFilename>>
              /\ lib' = "loaded"
              /\ loadResult' = "Ok"
         ELSE /\ loadTried' = <<CoreFilename, "librv_core.so">>
              /\ lib' = IF osOk THEN "loaded" ELSE lib
              /\ loadResult' = IF osOk THEN "Ok" ELSE "Err"
    /\ UNCHANGED <<fileExists, exports, logger, maxLevel, hstate, lastCall>>
    /\ UNCHANGED newVars
    /\ UNCHANGED pathVars

\* load_core, lines 111-115: one Library::new on CoreFilename; its error is
\* returned as it is.
LoadCore ==
    /\ newPc = "idle"
    /\ lib # "loaded"
    /\ loadTried' = <<CoreFilename>>
    /\ \E osOk \in BOOLEAN :
         IF fileExists /\ osOk
         THEN /\ lib' = "loaded"
              /\ loadResult' = "Ok"
         ELSE /\ loadResult' = "Err"
              /\ UNCHANGED lib
    /\ UNCHANGED <<fileExists, exports, logger, maxLevel, hstate, lastCall>>
    /\ UNCHANGED newVars
    /\ UNCHANGED pathVars

\* Library::get: the symbol is looked up by its name, with or without the
\* closing NUL byte in the literal.
LibGet(sym) == IF sym.name \in exports THEN "Ok" ELSE "Err"

\* Mutant: the threshold handed over is the log file's, whatever is active.
SetupLoggerArgs_Fixed == <<logger, "Info">>

\* Line 121: the arguments of the injection call.
SetupLoggerArgs == <<logger, maxLevel>>

\* Mutant: the result of the lookup is kept and the call never made.
NewGetLogger_NoCall ==
    /\ newPc = "idle"
    /\ lib = "loaded"
    /\ core = "none"
    /\ ret' = LibGet(SetupLoggerSym)
    /\ newPc' = "get_create"
    /\ called' = <<>>
    /\ loggerArgs' = <<>>
    /\ loggerRet' = "none"
    /\ resolved' = {}
    /\ newResult' = "none"
    /\ newErr' = "none"
    /\ UNCHANGED <<fileExists, exports, logger, maxLevel, lib, loadResult, loadTried,
                   core, hstate, lastCall>>
    /\ UNCHANGED pathVars

\* Mutant: the call is made whether or not the lookup succeeded.
NewGetLogger_AlwaysCall ==
    /\ newPc = "idle"
    /\ lib = "loaded"
    /\ core = "none"
    /\ ret' = LibGet(SetupLoggerSym)
    /\ newPc' = "call_logger"
    /\ called' = <<>>
    /\ loggerArgs' = <<>>
    /\ loggerRet' = "none"
    /\ resolved' = {}
    /\ newResult' = "none"
    /\ newErr' = "none"
    /\ UNCHANGED <<fileExists, exports, logger, maxLevel, lib, loadResult, loadTried,
                   core, hstate, lastCall>>
    /\ UNCHANGED pathVars

\* Core::new, lines 117-120: look core_setup_logger up.
NewGetLogger ==
    /\ newPc = "idle"
    /\ lib = "loaded"
    /\ core = "none"
    /\ ret' = LibGet(SetupLoggerSym)
    /\ newPc' = IF LibGet(SetupLoggerSym) = "Ok" THEN "call_logger" ELSE "get_create"
    /\ called' = <<>>
    /\ loggerArgs' = <<>>
    /\ loggerRet' = "none"
    /\ resolved' = {}
    /\ newResult' = "none"
    /\ newErr' = "none"
    /\ UNCHANGED <<fileExists, exports, logger, maxLevel, lib, loadResult, loadTried,
                   core, hstate, lastCall>>
    /\ UNCHANGED pathVars

\* Core::new, line 121: call it and unwrap what it returns.
NewCallLogger ==
    /\ newPc = "call_logger"
    /\ called' = Append(called, "core_setup_logger")
    /\ loggerArgs' = SetupLoggerArgs
    /\ \E r \in {"Ok", "Err"} :
         /\ loggerRet' = r
         /\ IF r = "Ok"
            THEN /\ newPc' = "get_create"
                 /\ UNCHANGED newResult
            ELSE /\ newPc' = "panicked"
                 /\ newResult' = "Panic"
    /\ UNCHANGED <<fileExists, exports, logger, maxLevel, lib, loadResult, loadTried,
                   ret, resolved, newErr, core, hstate, lastCall>>
    /\ UNCHANGED pathVars

\* Mutant: a failed lookup is not returned; Core::new goes on.
NewGetRequired_Continue(at, sym, next) ==
    /\ newPc = at
    /\ resolved' = IF LibGet(sym) = "Ok" THEN resolved \cup {sym.name} ELSE resolved
    /\ newPc' = next
    /\ UNCHANGED <<newResult, newErr>>
    /\ UNCHANGED <<fileExists, exports, logger, maxLevel, lib, loadResult, loadTried,
                   ret, called, loggerArgs, loggerRet, core, hstate, lastCall>>
    /\ UNCHANGED pathVars

\* One required lookup of Core::new: on failure the error, with the context
\* naming the entry point, is returned.
NewGetRequired(at, sym, next) ==
    /\ newPc = at
    /\ IF LibGet(sym) = "Ok"
       THEN /\ resolved' = resolved \cup {sym.name}
            /\ newPc' = next
            /\ UNCHANGED <<newResult, newErr>>
       ELSE /\ newResult' = "Err"
            /\ newErr' = sym.name
            /\ newPc' = "idle"
            /\ UNCHANGED resolved
    /\ UNCHANGED <<fileExists, exports, logger, maxLevel, lib, loadResult, loadTried,
                   ret, called, loggerArgs, loggerRet, core, hstate, lastCall>>
    /\ UNCHANGED pathVars

\* Core::new, lines 124-126.
NewGetCreate == NewGetRequired("get_create", CoreCreateSym, "get_destroy")

\* Core::new, lines 127-129.
NewGetDestroy == NewGetRequired("get_destroy", CoreDestroySym, "get_update")

\* Core::new, lines 130-132.
NewGetUpdate == NewGetRequired("get_update", CoreUpdateSym, "build")

\* Core::new, lines 134-138: the Core holding the three symbols.
NewReturn ==
    /\ newPc = "build"
    /\ core' = "alive"
    /\ newResult' = "Ok"
    /\ newPc' = "idle"
    /\ UNCHANGED <<fileExists, exports, logger, maxLevel, lib, loadResult, loadTried,
                   ret, called, loggerArgs, loggerRet, resolved, newErr, hstate, lastCall>>
    /\ UNCHANGED pathVars

\* The handles a caller may pass: raw pointers, free to copy, so every
\* handle core_create has returned so far, destroyed or not.
Held == {h \in Handles : hstate[h] # "unborn"}

\* The next handle core_create returns.
Fresh == CHOOSE h \in Handles : hstate[h] = "unborn" /\ \A g \in Handles : g < h => hstate[g] # "unborn"

\* What ties a call through a field of Core to the Core: the Core exists.
CanCall == newPc = "idle" /\ core = "alive"

\* (core.core_create_func)(), lines 16 and 25.
CallCreate ==
    /\ CanCall
    /\ \E h \in Handles : hstate[h] = "unborn"
    /\ hstate' = [hstate EXCEPT ![Fresh] = "live"]
    /\ lastCall' = [fn |-> "core_create", handle |-> Fresh, flag |-> FALSE, stale |-> FALSE]
    /\ UNCHANGED <<fileExists, exports, logger, maxLevel, lib, loadResult, loadTried>>
    /\ UNCHANGED newVars
    /\ UNCHANGED pathVars

\* (core.core_update_func)(h), lines 19 and 27.
CallUpdate ==
    /\ CanCall
    /\ \E h \in Held :
         lastCall' = [fn |-> "core_update", handle |-> h, flag |-> FALSE,
                      stale |-> hstate[h] = "destroyed"]
    /\ UNCHANGED <<fileExists, exports, logger, maxLevel, lib, loadResult, loadTried, hstate>>
    /\ UNCHANGED newVars
    /\ UNCHANGED pathVars

\* (core.core_destroy_func)(h, prepare_reflesh), lines 22 and 26.
CallDestroy ==
    /\ CanCall
    /\ \E h \in Held, prepare \in BOOLEAN :
         /\ lastCall' = [fn |-> "core_destroy", handle |-> h, flag |-> prepare,
                         stale |-> hstate[h] = "destroyed"]
         /\ hstate' = [hstate EXCEPT ![h] = "destroyed"]
    /\ UNCHANGED <<fileExists, exports, logger, maxLevel, lib, loadResult, loadTried>>
    /\ UNCHANGED newVars
    /\ UNCHANGED pathVars

\* The Core<'a> goes out of scope: it has no Drop of its own, lines 24-28.
DropCore ==
    /\ CanCall
    /\ core' = "none"
    /\ UNCHANGED <<fileExists, exports, logger, maxLevel, lib, loadResult, loadTried,
                   newPc, ret, called, loggerArgs, loggerRet, resolved, newResult,
                   newErr, hstate, lastCall>>
    /\ UNCHANGED pathVars

\* The Library is dropped (the module is unloaded): possible once no
\* Core<'a> borrows it, lines 24 and 117.
DropLibrary ==
    /\ newPc = "idle"
    /\ lib = "loaded"
    /\ core = "none"
    /\ lib' = "unloaded"
    /\ UNCHANGED <<fileExists, exports, logger, maxLevel, loadResult, loadTried, hstate, lastCall>>
    /\ UNCHANGED newVars
    /\ UNCHANGED pathVars

CoreNext ==
    \/ InitLogging
    \/ LoadCore
    \/ NewGetLogger
    \/ NewCallLogger
    \/ NewGetCreate
    \/ NewGetDestroy
    \/ NewGetUpdate
    \/ NewReturn
    \/ CallCreate
    \/ CallUpdate
    \/ CallDestroy
    \/ DropCore
    \/ DropLibrary

\* ---------------------------------------------------------- specifications
\* The working directory once start-up path resolution is over (the
\* executable and "data" in the root directory).
PathDone ==
    /\ exeDir = Root
    /\ exeKnown = TRUE
    /\ dataDirs = {Root}
    /\ cwd = Root
    /\ chdirs = 2
    /\ path = NoPath
    /\ pc = "done"
    /\ fddResult = "Ok"
    /\ iddResult = "Ok"

\* The module's life: logging, loading, resolving, the calls, the drops.
Init == PathDone /\ CoreInit

Next == CoreNext

Spec == Init /\ [][Next]_vars

\* Start-up path resolution, before anything is loaded.
PathSpecInit ==
    /\ PathInit
    /\ fileExists = FALSE
    /\ exports = {}
    /\ CoreIdle

PathSpec == PathSpecInit /\ [][PathNext]_vars

\* The same with the steps of the one thread taken as long as one is possible.
FairPathSpec == PathSpec /\ WF_vars(PathNext)

\* ------------------------------------------------------------------ claims
\* A directory and its ancestors.
Ancestors(p) == {SubSeq(p, 1, k) : k \in 0..Len(p)}

\* init_data_directory has returned Ok.
ReturnedOk == pc = "done" /\ iddResult = "Ok"

\* Some ancestor of the executable's directory, itself included, has "data".
DataAbove == \E d \in Ancestors(exeDir) : DataExists(d)

\* C1 as stated: after init_data_directory returns Ok the working directory is
\* the ancestor of the executable's directory (itself included) that has "data".
C1_CwdIsDataAncestor == ReturnedOk => (cwd \in Ancestors(exeDir) /\ DataExists(cwd))

\* C1 amended: after init_data_directory returns Ok the working directory is
\* the executable's directory, and some ancestor of it (itself included) has
\* "data"; it is the directory with "data" only if "data" is next to the
\* executable.
C1_CwdIsExeDir ==
    ReturnedOk => /\ cwd = exeDir
                  /\ DataAbove
                  /\ (DataExists(cwd) <=> DataExists(exeDir))

\* "data" three levels above the executable's directory, and Ok returned.
C1_Witness ==
    /\ ReturnedOk
    /\ Len(exeDir) = 3
    /\ dataDirs = {Root}
    /\ cwd = exeDir

\* C7 as stated: a successful init_data_directory has set the process-wide
\* working directory exactly once.
C7_ChdirOnce == ReturnedOk => chdirs = 1

\* C7 amended: a successful init_data_directory has set the working directory
\* twice when "data" is next to the executable and three times when it is in
\* a proper ancestor (executable's directory, the ancestor, executable's
\* directory again).
C7_ChdirTwiceOrThrice == ReturnedOk => chdirs = IF DataExists(exeDir) THEN 2 ELSE 3

\* A successful run that went through the ancestor holding "data".
C7_Witness ==
    /\ ReturnedOk
    /\ chdirs = 3
    /\ ~DataExists(exeDir)
    /\ Len(exeDir) >= 2

\* find_data_directory has returned.
FddDone == fddResult # "none"

\* C8: find_data_directory, started in any directory of finite depth, returns;
\* it returns Ok exactly if that directory or an ancestor has "data" (leaving
\* the working directory in one that has it), and Err only with the root
\* reached.
C8_FindTerminates ==
    /\ [](FddDone => (fddResult = "Ok" <=> DataAbove))
    /\ []((pc = "idd_after_find" /\ fddResult = "Ok") => DataExists(cwd))
    /\ [](fddResult = "Err" => (IF path = NoPath THEN cwd = Root ELSE path = Root))
    /\ (pc = "fdd_start" ~> FddDone)

\* The walk from a directory three or more levels deep up to the root, in vain.
C8_Witness ==
    /\ fddResult = "Err"
    /\ path = Root
    /\ Len(exeDir) >= 3

\* The required entry points the module does not export.
Missing == Required \ exports

\* The first of them in the order Core::new looks them up.
FirstMissing ==
    IF "core_create" \in Missing THEN "core_create"
    ELSE IF "core_destroy" \in Missing THEN "core_destroy"
    ELSE "core_update"

\* A run of Core::new has ended.
NewDone == newResult # "none"

HasLogger == "core_setup_logger" \in exports

\* C2 as stated: on a module lacking a required entry point Core::new returns
\* an error naming a missing entry point, and no Core.
C2_ReturnsErrNamingMissing ==
    (NewDone /\ Missing # {}) =>
        /\ newResult = "Err"
        /\ newErr \in Missing
        /\ core = "none"

\* C2 amended: on such a module Core::new never yields a Core; it returns an
\* error naming the first missing entry point in the order core_create,
\* core_destroy, core_update, unless the module exports core_setup_logger and
\* that call reports failure, when Core::new panics instead of returning.
C2_ErrOrPanic ==
    (NewDone /\ Missing # {}) =>
        /\ core = "none"
        /\ IF loggerRet = "Err"
           THEN newResult = "Panic" /\ newErr = "none"
           ELSE newResult = "Err" /\ newErr = FirstMissing /\ newErr \in Missing

\* Two entry points missing: the error names the first.
C2_Witness ==
    /\ Missing = {"core_destroy", "core_update"}
    /\ newResult = "Err"
    /\ newErr = "core_destroy"

\* C3 as stated: on a module lacking a required entry point no entry point of
\* the module, core_setup_logger included, is invoked by Core::new.
C3_NoCallAtAll == Missing # {} => called = <<>>

\* C3 amended: on such a module Core::new invokes none of core_create,
\* core_update, core_destroy, and no Core exists to call them through; the
\* one call it makes into the module is core_setup_logger, once, before the
\* lookup of the required entry points fails, exactly when the module exports
\* it.
C3_OnlyLoggerCalled ==
    Missing # {} =>
        /\ \A i \in 1..Len(called) : called[i] \notin Required
        /\ lastCall = NoCall
        /\ NewDone => called = IF HasLogger THEN <<"core_setup_logger">> ELSE <<>>
        /\ (newResult = "Err" /\ HasLogger) => loggerRet = "Ok"

\* A module with the logger entry but no core_create: called, then Err.
C3_Witness ==
    /\ "core_create" \in Missing
    /\ newResult = "Err"
    /\ called = <<"core_setup_logger">>

\* C4: no call through Core's fields reaches the module with a handle that
\* core_destroy has already received.
C4_NoCallAfterDestroy == lastCall.stale = FALSE

\* C5: the library is not unloaded while a handle core_create returned has not
\* been passed to core_destroy.
C5_UnloadAfterDestroy == lib = "unloaded" => \A h \in Handles : hstate[h] # "live"

\* C6: on a module without core_setup_logger that exports the three required
\* entry points, Core::new ends with Ok, calls nothing in the module, and the
\* lookup that gates the injection call (`ret`) is not Ok.
C6_NoLoggerStillOk ==
    (~HasLogger /\ Missing = {}) =>
        /\ called = <<>>
        /\ loggerRet = "none"
        /\ ret \in {"unset", "Err"}
        /\ newPc # "call_logger"
        /\ NewDone => (newResult = "Ok" /\ ret = "Err")

\* Such a module, resolved into a Core.
C6_Witness ==
    /\ ~HasLogger
    /\ newResult = "Ok"
    /\ core = "alive"
    /\ ret = "Err"

\* C9: with no file at the module path load_core returns an error after one
\* attempt on that one path; no Library exists, so Core::new never runs, no
\* Core exists and no handle is ever created.
C9_NoFileNoHandle ==
    ~fileExists =>
        /\ lib = "none"
        /\ loadResult \in {"none", "Err"}
        /\ loadResult = "Err" => loadTried = <<CoreFilename>>
        /\ newPc = "idle"
        /\ newResult = "none"
        /\ core = "none"
        /\ \A h \in Handles : hstate[h] = "unborn"
        /\ lastCall = NoCall

\* load_core has failed on the missing file.
C9_Witness ==
    /\ ~fileExists
    /\ loadResult = "Err"
    /\ loadTried = <<CoreFilename>>

\* Core::new is past line 121.
PastLoggerCall == newPc \in {"get_create", "get_destroy", "get_update", "build", "panicked"}

\* C10: on a module exporting core_setup_logger, Core::new calls it once, with
\* the process-wide logger and the active threshold, before any required
\* symbol is resolved; Ok is returned only after the call reported success,
\* and a reported failure ends Core::new in a panic, with no Core and no Err.
C10_LoggerInjectedOnce ==
    HasLogger =>
        /\ newPc = "call_logger" => (called = <<>> /\ resolved = {})
        /\ (resolved # {} \/ NewDone) => called = <<"core_setup_logger">>
        /\ Len(called) <= 1
        /\ PastLoggerCall => loggerArgs = <<logger, maxLevel>>
        /\ newResult = "Ok" => loggerRet = "Ok"
        /\ loggerRet = "Err" => (newResult = "Panic" /\ core = "none" /\ resolved = {})

\* The injection call made with the installed logger, and a Core returned.
C10_Witness ==
    /\ HasLogger
    /\ newResult = "Ok"
    /\ core = "alive"
    /\ called = <<"core_setup_logger">>
    /\ loggerArgs = <<"CombinedLogger", "Info">>

====
